---- MODULE Spec2Model ----
(***************************************************************************)
(* Model of image_translator/trainers/trainer.py: Trainer.fit as a state   *)
(* machine (one action per statement group of the loop), TrainArtifact and *)
(* TrainArtifact.dump_metrics together with the json text it writes.       *)
(*                                                                         *)
(* Numbers.  A Python float is modelled as a record [k, v]: k = "fin" with *)
(* v the value in units of 1/Scale, or k = "inf" / "nan" (v = 0).  None is *)
(* the record with k = "none".  The numeric runtime (torch) is external:   *)
(* the value float(CRITERION(...)) of one forward pass is drawn from       *)
(* LossVals, the outcomes nn.MSELoss can produce (a non-negative finite    *)
(* number, +inf on overflow, NaN on divergence).                           *)
(*                                                                         *)
(* Logging (LOGGER.info, the LOG_EVERY cadence) changes no state of the    *)
(* program and is left out.                                                *)
(***************************************************************************)
EXTENDS Integers, Sequences, FiniteSets, TLC

\* ------------------------------------------------------------------ bounds
MaxEpochs == 2
MaxBatches == 2
MaxTestBatches == 1
ReuseCalls == 2

\* len(batch) of the batches a loader yields: full batches and a smaller last one
BatchLens == {1, 2}

FullBatch == CHOOSE l \in BatchLens : \A m \in BatchLens : m <= l

\* ------------------------------------------------------------------ floats
\* Unit of the fixed-point values: every division by a batch length is exact.
Scale == CHOOSE s \in 1..24 :
            /\ \A l \in BatchLens : s % l = 0
            /\ \A t \in 1..(s - 1) : \E l \in BatchLens : t % l # 0

Fin(n) == [k |-> "fin", v |-> n]
Inf == [k |-> "inf", v |-> 0]
NaN == [k |-> "nan", v |-> 0]
None == [k |-> "none", v |-> 0]

\* a + b on Python floats (operands are never negative here, so inf + inf = inf)
FAdd(a, b) ==
    IF a.k = "nan" \/ b.k = "nan" THEN NaN
    ELSE IF a.k = "inf" \/ b.k = "inf" THEN Inf
    ELSE Fin(a.v + b.v)

\* a / n for a float a and an int n >= 1 (len(batch))
FDiv(a, n) == IF a.k = "fin" THEN Fin(a.v \div n) ELSE a

\* a == b on Python floats / None: NaN compares unequal to everything
FEq(a, b) == a.k # "nan" /\ b.k # "nan" /\ a = b

\* float(self.CRITERION(out, batch.to(device))): what nn.MSELoss can return
LossVals == {Fin(0), Fin(Scale), Inf, NaN}

\* -------------------------------------------------------------------- json
Digit == <<"0", "1", "2", "3", "4", "5", "6", "7", "8", "9">>

DigitVal(c) == CHOOSE d \in 0..9 : Digit[d + 1] = c

IsDigit(c) == \E d \in 0..9 : Digit[d + 1] = c

RECURSIVE IntRepr(_)
IntRepr(n) == IF n < 10 THEN <<Digit[n + 1]>>
              ELSE Append(IntRepr(n \div 10), Digit[(n % 10) + 1])

\* float.__repr__ as json.dump uses it: the shortest decimal that reads back
\* as the same float; a multiple of 1/Scale needs the integer part, the point
\* and the decimals of the remainder (at least one digit: 3.0, 0.5).
RECURSIVE FracRepr(_, _)
FracRepr(r, den) ==
    LET d == (r * 10) \div den
        rest == (r * 10) % den
    IN IF rest = 0 THEN <<Digit[d + 1]>> ELSE <<Digit[d + 1]>> \o FracRepr(rest, den)

FloatRepr(a) == IntRepr(a.v \div Scale) \o <<".">> \o FracRepr(a.v % Scale, Scale)

\* json's encoding of one float or None (allow_nan is left at its default)
EncodeScalar(a) ==
    CASE a.k = "none" -> <<"null">>
      [] a.k = "nan" -> <<"NaN">>
      [] a.k = "inf" -> <<"Infinity">>
      [] OTHER -> FloatRepr(a)

RECURSIVE EncodeItems(_)
EncodeItems(s) ==
    IF s = <<>> THEN <<>>
    ELSE IF Len(s) = 1 THEN EncodeScalar(s[1])
    ELSE EncodeScalar(s[1]) \o <<",">> \o EncodeItems(Tail(s))

EncodeList(s) == <<"[">> \o EncodeItems(s) \o <<"]">>

\* the two optional losses written under each other's key
JsonDumpSwapped(metrics) ==
    <<"{", "baseline_loss", ":">> \o EncodeScalar(metrics.test_loss)
    \o <<",", "train_losses", ":">> \o EncodeList(metrics.train_losses)
    \o <<",", "test_loss", ":">> \o EncodeScalar(metrics.baseline_loss)
    \o <<"}">>

\* json.dump(metrics, f): the keys in the order the dict literal gives them
JsonDump(metrics) ==
    <<"{", "baseline_loss", ":">> \o EncodeScalar(metrics.baseline_loss)
    \o <<",", "train_losses", ":">> \o EncodeList(metrics.train_losses)
    \o <<",", "test_loss", ":">> \o EncodeScalar(metrics.test_loss)
    \o <<"}">>

\* ---- json.load: the reader of the text json.dump writes
RECURSIVE DigitsEnd(_, _)
DigitsEnd(toks, i) ==
    IF i <= Len(toks) /\ IsDigit(toks[i]) THEN DigitsEnd(toks, i + 1) ELSE i

RECURSIVE DigitsVal(_)
DigitsVal(ds) ==
    IF ds = <<>> THEN 0
    ELSE 10 * DigitsVal(SubSeq(ds, 1, Len(ds) - 1)) + DigitVal(ds[Len(ds)])

RECURSIVE Pow10(_)
Pow10(k) == IF k = 0 THEN 1 ELSE 10 * Pow10(k - 1)

\* a decimal "<int>.<frac>" read as the nearest float (multiple of 1/Scale)
ParseFloat(toks, i) ==
    LET e1 == DigitsEnd(toks, i)
        hasFrac == e1 <= Len(toks) /\ toks[e1] = "."
        e2 == IF hasFrac THEN DigitsEnd(toks, e1 + 1) ELSE e1
        ip == DigitsVal(SubSeq(toks, i, e1 - 1))
        fd == IF hasFrac THEN SubSeq(toks, e1 + 1, e2 - 1) ELSE <<>>
        p == Pow10(Len(fd))
    IN [ok |-> e1 > i /\ (hasFrac => e2 > e1 + 1),
        val |-> Fin(ip * Scale + (2 * DigitsVal(fd) * Scale + p) \div (2 * p)),
        next |-> e2]

ParseScalar(toks, i) ==
    IF i > Len(toks) THEN [ok |-> FALSE, val |-> None, next |-> i]
    ELSE CASE toks[i] = "null" -> [ok |-> TRUE, val |-> None, next |-> i + 1]
           [] toks[i] = "NaN" -> [ok |-> TRUE, val |-> NaN, next |-> i + 1]
           [] toks[i] = "Infinity" -> [ok |-> TRUE, val |-> Inf, next |-> i + 1]
           [] OTHER -> ParseFloat(toks, i)

\* the items of a list, from the token after "[" or after a ","
RECURSIVE ParseItems(_, _, _)
ParseItems(toks, i, acc) ==
    LET x == ParseScalar(toks, i)
    IN IF ~x.ok \/ x.next > Len(toks) THEN [ok |-> FALSE, val |-> acc, next |-> i]
       ELSE IF toks[x.next] = "," THEN ParseItems(toks, x.next + 1, Append(acc, x.val))
       ELSE [ok |-> toks[x.next] = "]", val |-> Append(acc, x.val), next |-> x.next + 1]

ParseList(toks, i) ==
    IF i + 1 <= Len(toks) /\ toks[i + 1] = "]"
    THEN [ok |-> TRUE, val |-> <<>>, next |-> i + 2]
    ELSE ParseItems(toks, i + 1, <<>>)

ParseValue(toks, i) ==
    IF i <= Len(toks) /\ toks[i] = "[" THEN ParseList(toks, i)
    ELSE LET x == ParseScalar(toks, i)
         IN [ok |-> x.ok, val |-> <<x.val>>, next |-> x.next]

\* the members of an object, from the token after "{" or after a ","; obj maps
\* each key read so far to its value (a scalar is held as a one-element tuple,
\* isList tells the two apart)
RECURSIVE ParseMembers(_, _, _)
ParseMembers(toks, i, obj) ==
    IF i + 2 > Len(toks) \/ toks[i + 1] # ":" THEN [ok |-> FALSE, obj |-> obj]
    ELSE LET x == ParseValue(toks, i + 2)
             o2 == [q \in DOMAIN obj \cup {toks[i]} |->
                       IF q = toks[i]
                       THEN [isList |-> toks[i + 2] = "[", val |-> x.val]
                       ELSE obj[q]]
         IN IF ~x.ok \/ x.next > Len(toks) THEN [ok |-> FALSE, obj |-> obj]
            ELSE IF toks[x.next] = "," THEN ParseMembers(toks, x.next + 1, o2)
            ELSE [ok |-> toks[x.next] = "}" /\ x.next = Len(toks), obj |-> o2]

EmptyObj == [q \in {} |-> [isList |-> FALSE, val |-> <<>>]]

JsonLoad(toks) ==
    IF Len(toks) < 2 \/ toks[1] # "{" THEN [ok |-> FALSE, obj |-> EmptyObj]
    ELSE IF toks[2] = "}" THEN [ok |-> Len(toks) = 2, obj |-> EmptyObj]
    ELSE ParseMembers(toks, 2, EmptyObj)

MetricKeys == {"baseline_loss", "train_losses", "test_loss"}

\* loaded == metrics as Python compares the two dicts (element-wise, floats by ==)
SeqEq(s, t) ==
    /\ Len(s) = Len(t)
    /\ \A j \in 1..Len(s) : FEq(s[j], t[j]) \/ (s[j] = None /\ t[j] = None)

ScalarIs(member, a) ==
    ~member.isList /\ (FEq(member.val[1], a) \/ (member.val[1] = None /\ a = None))

LoadedEquals(loaded, metrics) ==
    /\ loaded.ok
    /\ DOMAIN loaded.obj = MetricKeys
    /\ ScalarIs(loaded.obj["baseline_loss"], metrics.baseline_loss)
    /\ ScalarIs(loaded.obj["test_loss"], metrics.test_loss)
    /\ loaded.obj["train_losses"].isList
    /\ SeqEq(loaded.obj["train_losses"].val, metrics.train_losses)

\* the same, with a NaN read back as NaN counted as the same value
LoadedSame(loaded, metrics) ==
    /\ loaded.ok
    /\ DOMAIN loaded.obj = MetricKeys
    /\ ~loaded.obj["baseline_loss"].isList
    /\ loaded.obj["baseline_loss"].val = <<metrics.baseline_loss>>
    /\ ~loaded.obj["test_loss"].isList
    /\ loaded.obj["test_loss"].val = <<metrics.test_loss>>
    /\ loaded.obj["train_losses"].isList
    /\ loaded.obj["train_losses"].val = metrics.train_losses

\* ------------------------------------------------------------------ inputs
\* What a DataLoader yields in one pass, as the len() of each batch: full
\* batches, the last one possibly smaller; the empty pass is a loader over no
\* images.  A batch is identified by its position in the pass.
LoadersUpTo(max) ==
    {<<>>} \cup
    UNION {{[j \in 1..n |-> IF j < n THEN FullBatch ELSE l] : l \in BatchLens} :
           n \in 1..max}

Loaders == LoadersUpTo(MaxBatches)

NoLoader == [present |-> FALSE, batches |-> <<>>]

TestLoaders == {NoLoader} \cup {[present |-> TRUE, batches |-> b] : b \in LoadersUpTo(MaxTestBatches)}

\* lr in units of the default 2e-2: negative, zero, positive
LearningRates == {-1, 0, 1}

EpochCounts == -1..MaxEpochs

Configs ==
    [train_loader : Loaders, test_loader : TestLoaders,
     lr : LearningRates, epochs : EpochCounts]

\* the configurations of the runs that reuse one Trainer
ReuseConfigs ==
    {c \in Configs : /\ c.train_loader = <<FullBatch>>
                     /\ c.test_loader.batches \in {<<>>, <<FullBatch>>}
                     /\ c.lr = 1
                     /\ c.epochs = 1}

ErrorKinds == {"RuntimeError"}

NoArtifact ==
    [made |-> FALSE, model |-> 0, train_losses |-> <<>>,
     baseline_loss |-> None, test_loss |-> None]

NoFile == [exists |-> FALSE, text |-> <<>>]

\* an earlier file at the path given to dump_metrics
OldFile == [exists |-> TRUE, text |-> <<"{", "old", ":", "7", ".", "2", "5", "}">>]

\* ------------------------------------------------------------------- state
VARIABLES
    params,        \* heap of parameter objects: id -> weights, the sequence of
                   \* optimizer updates <<lr, batch index>> applied since creation
    self_blocks,   \* Trainer.encoder_blocks / decoder_blocks: id of their parameters
    seeded,        \* whether the caller fixes the random seed before every run
    memo,          \* under a fixed seed: the loss of each (weights, batch) seen
    calls_left,    \* fit calls the caller may still make
    pc,            \* position in fit
    train_loader, test_loader, lr, epochs,           \* arguments of the call
    autoencoder,   \* id of the parameters the model of this call holds (0: none)
    baseline_loss, train_losses, test_loss,          \* locals of fit
    optimizer, epoch, epoch_loss, bi, batch_loss, grad,
    artifact,      \* the TrainArtifact fit returned
    error,         \* the exception that left fit
    file,          \* the file at the path given to dump_metrics
    dumped,        \* dump_metrics has run on the artifact
    nsteps,        \* history: optimizer steps of this call
    phases,        \* history: phases this call entered
    built_state,   \* history: weights of the model right after construction
    step_state,    \* history: weights of the model right after its last step
    results        \* history: what each returned call was given and returned

vars == <<params, self_blocks, seeded, memo, calls_left, pc, train_loader,
          test_loader, lr, epochs, autoencoder, baseline_loss, train_losses,
          test_loss, optimizer, epoch, epoch_loss, bi, batch_loss, grad,
          artifact, error, file, dumped, nsteps, phases, built_state,
          step_state, results>>

trainer_vars == <<params, self_blocks>>
env_vars == <<seeded, calls_left>>
arg_vars == <<train_loader, test_loader, lr, epochs>>
out_vars == <<artifact, error, file, dumped, results>>

\* Trainer.__init__: the blocks (and their parameters) are created here, once
InitTrainer ==
    /\ params = <<<<>>>>
    /\ self_blocks = 1

InitFit ==
    /\ pc = "idle"
    /\ train_loader = <<>> /\ test_loader = NoLoader /\ lr = 1 /\ epochs = 0
    /\ autoencoder = 0
    /\ baseline_loss = None /\ train_losses = <<>> /\ test_loss = None
    /\ optimizer = "none" /\ epoch = 0 /\ epoch_loss = None /\ bi = 0
    /\ batch_loss = None /\ grad = "none"
    /\ artifact = NoArtifact /\ error = "none"
    /\ file = NoFile /\ dumped = FALSE
    /\ nsteps = 0 /\ phases = <<>> /\ built_state = <<>> /\ step_state = <<>>
    /\ results = <<>>
    /\ memo = <<>>

Init == InitTrainer /\ InitFit /\ seeded = FALSE /\ calls_left = 1

InitReuse == InitTrainer /\ InitFit /\ seeded = TRUE /\ calls_left = ReuseCalls

\* ------------------------------------------------------- the numeric runtime
\* networks.Encoder / Decoder / AutoEncoder compose the block objects they are
\* given: the model holds the parameters of the blocks themselves.
AutoEncoder(blocks) == blocks

\* autoencoder(batch): the forward pass reads the parameters and leaves them as
\* they are (the model is changed by the optimizer step alone)
ForwardPass(w) == w

\* the weights of the model fit is working on
Weights == params[autoencoder]

\* The losses a forward pass of batch b of loader which can give with the model in
\* its present state: any loss, but under a fixed seed the same one as before.
Outcomes(which, b) ==
    IF seeded /\ <<Weights, which, b>> \in DOMAIN memo
    THEN {memo[<<Weights, which, b>>]}
    ELSE LossVals

Remember(which, b, loss) ==
    IF seeded THEN (<<Weights, which, b>> :> loss) @@ memo ELSE memo

\* optimizer.step(): Adam updates the parameters it was given, in place
AdamStep(w, rate, b) == Append(w, <<rate, b>>)

\* range(1, epochs): the upper end forgotten
EpochRangeShort(n) == 1..(n - 1)

\* range(1, epochs + 1)
EpochRange(n) == 1..n

\* the total set to 0.0 whether or not there is a test loader
LossStartAlways(loader) == Fin(0)

\* the else branches of the two `if test_loader is not None`
LossStart(loader) == IF loader.present THEN Fin(0) ELSE None

\* loss += float(CRITERION(out, batch)) / len(batch)
Accumulated(total, loss, len) == FAdd(total, FDiv(loss, len))

\* --------------------------------------------------------------- Trainer.fit
\* fit is left, by return or by an exception: its frame and locals are gone
FrameDropped ==
    /\ autoencoder' = 0
    /\ baseline_loss' = None /\ train_losses' = <<>> /\ test_loss' = None
    /\ optimizer' = "none" /\ epoch' = 0 /\ epoch_loss' = None /\ bi' = 0
    /\ batch_loss' = None /\ grad' = "none"

\* the caller calls fit(train_loader, test_loader, lr, epochs)
Call(cfg) ==
    /\ calls_left' = calls_left - 1
    /\ train_loader' = cfg.train_loader /\ test_loader' = cfg.test_loader
    /\ lr' = cfg.lr /\ epochs' = cfg.epochs
    /\ pc' = "build"
    /\ FrameDropped
    /\ artifact' = NoArtifact /\ error' = "none" /\ dumped' = FALSE
    /\ nsteps' = 0 /\ phases' = <<>> /\ built_state' = <<>> /\ step_state' = <<>>
    /\ UNCHANGED <<trainer_vars, seeded, memo, file, results>>

\* lines 139-147: encoder, decoder, autoencoder
BuildModel ==
    /\ pc = "build"
    /\ autoencoder' = AutoEncoder(self_blocks)
    /\ built_state' = params[AutoEncoder(self_blocks)]
    /\ step_state' = params[AutoEncoder(self_blocks)]
    /\ phases' = Append(phases, <<"MODEL_BUILT", 0>>)
    /\ pc' = "baseline_check"
    /\ UNCHANGED <<trainer_vars, env_vars, memo, arg_vars, baseline_loss,
                   train_losses, test_loss, optimizer, epoch, epoch_loss, bi,
                   batch_loss, grad, out_vars, nsteps>>

\* the baseline pass left out: training starts right after the model is built
BaselineInitSkipped ==
    /\ pc = "baseline_check"
    /\ baseline_loss' = LossStart(test_loader)
    /\ bi' = 0
    /\ pc' = "optimizer"
    /\ UNCHANGED <<trainer_vars, env_vars, memo, arg_vars, autoencoder,
                   train_losses, test_loss, optimizer, epoch, epoch_loss,
                   batch_loss, grad, out_vars, nsteps, phases, built_state,
                   step_state>>

\* lines 148-151, 159-160
BaselineInit ==
    /\ pc = "baseline_check"
    /\ baseline_loss' = LossStart(test_loader)
    /\ bi' = 0
    /\ IF test_loader.present
       THEN pc' = "baseline_eval" /\ phases' = Append(phases, <<"BASELINE_EVAL", 0>>)
       ELSE pc' = "optimizer" /\ phases' = phases
    /\ UNCHANGED <<trainer_vars, env_vars, memo, arg_vars, autoencoder,
                   train_losses, test_loss, optimizer, epoch, epoch_loss,
                   batch_loss, grad, out_vars, nsteps, built_state, step_state>>

\* lines 152-156: one batch of the baseline pass, under torch.no_grad()
BaselineBatch ==
    /\ pc = "baseline_eval"
    /\ bi < Len(test_loader.batches)
    /\ bi' = bi + 1
    /\ \E loss \in Outcomes("test", bi + 1) :
          /\ baseline_loss' =
                Accumulated(baseline_loss, loss, test_loader.batches[bi + 1])
          /\ memo' = Remember("test", bi + 1, loss)
    /\ params' = [params EXCEPT ![autoencoder] = ForwardPass(@)]
    /\ UNCHANGED <<self_blocks, env_vars, arg_vars, pc, autoencoder,
                   train_losses, test_loss, optimizer, epoch, epoch_loss,
                   batch_loss, grad, out_vars, nsteps, phases, built_state,
                   step_state>>

\* line 152: the test iterator is exhausted
BaselineEnd ==
    /\ pc = "baseline_eval"
    /\ bi = Len(test_loader.batches)
    /\ pc' = "optimizer"
    /\ UNCHANGED <<trainer_vars, env_vars, memo, arg_vars, autoencoder,
                   baseline_loss, train_losses, test_loss, optimizer, epoch,
                   epoch_loss, bi, batch_loss, grad, out_vars, nsteps, phases,
                   built_state, step_state>>

\* lines 162-163: Adam's constructor rejects lr < 0 with a ValueError
MakeOptimizer ==
    /\ pc = "optimizer"
    /\ IF lr < 0
       THEN /\ pc' = "raised" /\ error' = "ValueError"
            /\ FrameDropped
       ELSE /\ pc' = "epoch_head" /\ error' = error
            /\ train_losses' = <<>> /\ optimizer' = "adam"
            /\ UNCHANGED <<autoencoder, baseline_loss, test_loss, epoch,
                           epoch_loss, bi, batch_loss, grad>>
    /\ UNCHANGED <<trainer_vars, env_vars, memo, arg_vars, artifact, file,
                   dumped, results, nsteps, phases, built_state, step_state>>

\* epoch_loss = 0.0 set once before the loop instead of at the top of its body
EpochHeadNoReset ==
    /\ pc = "epoch_head"
    /\ IF epoch + 1 \in EpochRange(epochs)
       THEN /\ epoch' = epoch + 1
            /\ epoch_loss' = IF epoch = 0 THEN Fin(0) ELSE epoch_loss
            /\ bi' = 0
            /\ phases' = Append(phases, <<"TRAINING", epoch + 1>>)
            /\ pc' = "next_batch"
       ELSE /\ pc' = "final_check"
            /\ UNCHANGED <<epoch, epoch_loss, bi, phases>>
    /\ UNCHANGED <<trainer_vars, env_vars, memo, arg_vars, autoencoder,
                   baseline_loss, train_losses, test_loss, optimizer,
                   batch_loss, grad, out_vars, nsteps, built_state, step_state>>

\* lines 164-165: the next epoch of the range, or the end of the loop
EpochHead ==
    /\ pc = "epoch_head"
    /\ IF epoch + 1 \in EpochRange(epochs)
       THEN /\ epoch' = epoch + 1
            /\ epoch_loss' = Fin(0)
            /\ bi' = 0
            /\ phases' = Append(phases, <<"TRAINING", epoch + 1>>)
            /\ pc' = "next_batch"
       ELSE /\ pc' = "final_check"
            /\ UNCHANGED <<epoch, epoch_loss, bi, phases>>
    /\ UNCHANGED <<trainer_vars, env_vars, memo, arg_vars, autoencoder,
                   baseline_loss, train_losses, test_loss, optimizer,
                   batch_loss, grad, out_vars, nsteps, built_state, step_state>>

\* line 166: the next batch of the training iterator, or its end
NextBatch ==
    /\ pc = "next_batch"
    /\ IF bi < Len(train_loader)
       THEN bi' = bi + 1 /\ pc' = "zero_grad"
       ELSE bi' = bi /\ pc' = "epoch_end"
    /\ UNCHANGED <<trainer_vars, env_vars, memo, arg_vars, autoencoder,
                   baseline_loss, train_losses, test_loss, optimizer, epoch,
                   epoch_loss, batch_loss, grad, out_vars, nsteps, phases,
                   built_state, step_state>>

\* line 167
ZeroGrad ==
    /\ pc = "zero_grad"
    /\ grad' = "zero"
    /\ pc' = "forward"
    /\ UNCHANGED <<trainer_vars, env_vars, memo, arg_vars, autoencoder,
                   baseline_loss, train_losses, test_loss, optimizer, epoch,
                   epoch_loss, bi, batch_loss, out_vars, nsteps, phases,
                   built_state, step_state>>

\* lines 168-169: reconstructed = autoencoder(original); batch_loss = CRITERION(...)
Forward ==
    /\ pc = "forward"
    /\ \E loss \in Outcomes("train", bi) :
          /\ batch_loss' = loss
          /\ memo' = Remember("train", bi, loss)
    /\ pc' = "backward"
    /\ params' = [params EXCEPT ![autoencoder] = ForwardPass(@)]
    /\ UNCHANGED <<self_blocks, env_vars, arg_vars, autoencoder,
                   baseline_loss, train_losses, test_loss, optimizer, epoch,
                   epoch_loss, bi, grad, out_vars, nsteps, phases, built_state,
                   step_state>>

\* line 170: backward() adds the gradients of this loss to the stored ones
Backward ==
    /\ pc = "backward"
    /\ grad' = IF grad = "zero" THEN "fresh" ELSE "accumulated"
    /\ pc' = "step"
    /\ UNCHANGED <<trainer_vars, env_vars, memo, arg_vars, autoencoder,
                   baseline_loss, train_losses, test_loss, optimizer, epoch,
                   epoch_loss, bi, batch_loss, out_vars, nsteps, phases,
                   built_state, step_state>>

\* line 171
OptimizerStep ==
    /\ pc = "step"
    /\ params' = [params EXCEPT ![autoencoder] = AdamStep(@, lr, bi)]
    /\ step_state' = AdamStep(Weights, lr, bi)
    /\ nsteps' = nsteps + 1
    /\ grad' = IF grad = "fresh" THEN "applied" ELSE "stale"
    /\ pc' = "accumulate"
    /\ UNCHANGED <<self_blocks, env_vars, memo, arg_vars, autoencoder,
                   baseline_loss, train_losses, test_loss, optimizer, epoch,
                   epoch_loss, bi, batch_loss, out_vars, phases, built_state>>

\* line 172
Accumulate ==
    /\ pc = "accumulate"
    /\ epoch_loss' = Accumulated(epoch_loss, batch_loss, train_loader[bi])
    /\ pc' = "next_batch"
    /\ UNCHANGED <<trainer_vars, env_vars, memo, arg_vars, autoencoder,
                   baseline_loss, train_losses, test_loss, optimizer, epoch,
                   bi, batch_loss, grad, out_vars, nsteps, phases, built_state,
                   step_state>>

\* lines 174-176
EpochEnd ==
    /\ pc = "epoch_end"
    /\ train_losses' = Append(train_losses, epoch_loss)
    /\ pc' = "epoch_head"
    /\ UNCHANGED <<trainer_vars, env_vars, memo, arg_vars, autoencoder,
                   baseline_loss, test_loss, optimizer, epoch, epoch_loss, bi,
                   batch_loss, grad, out_vars, nsteps, phases, built_state,
                   step_state>>

\* lines 178-181, 189-190
FinalInit ==
    /\ pc = "final_check"
    /\ test_loss' = LossStart(test_loader)
    /\ bi' = 0
    /\ IF test_loader.present
       THEN pc' = "final_eval" /\ phases' = Append(phases, <<"FINAL_EVAL", 0>>)
       ELSE pc' = "make_artifact" /\ phases' = phases
    /\ UNCHANGED <<trainer_vars, env_vars, memo, arg_vars, autoencoder,
                   baseline_loss, train_losses, optimizer, epoch, epoch_loss,
                   batch_loss, grad, out_vars, nsteps, built_state, step_state>>

\* the final pass run like a training pass: an optimizer step on every batch
FinalBatchTraining ==
    /\ pc = "final_eval"
    /\ bi < Len(test_loader.batches)
    /\ bi' = bi + 1
    /\ \E loss \in Outcomes("test", bi + 1) :
          /\ test_loss' = Accumulated(test_loss, loss, test_loader.batches[bi + 1])
          /\ memo' = Remember("test", bi + 1, loss)
    /\ params' = [params EXCEPT ![autoencoder] = AdamStep(@, lr, bi + 1)]
    /\ UNCHANGED <<self_blocks, env_vars, arg_vars, pc, autoencoder,
                   baseline_loss, train_losses, optimizer, epoch, epoch_loss,
                   batch_loss, grad, out_vars, nsteps, phases, built_state,
                   step_state>>

\* lines 182-186: one batch of the final test pass, under torch.no_grad()
FinalBatch ==
    /\ pc = "final_eval"
    /\ bi < Len(test_loader.batches)
    /\ bi' = bi + 1
    /\ \E loss \in Outcomes("test", bi + 1) :
          /\ test_loss' = Accumulated(test_loss, loss, test_loader.batches[bi + 1])
          /\ memo' = Remember("test", bi + 1, loss)
    /\ params' = [params EXCEPT ![autoencoder] = ForwardPass(@)]
    /\ UNCHANGED <<self_blocks, env_vars, arg_vars, pc, autoencoder,
                   baseline_loss, train_losses, optimizer, epoch, epoch_loss,
                   batch_loss, grad, out_vars, nsteps, phases, built_state,
                   step_state>>

\* line 182: the test iterator is exhausted
FinalEnd ==
    /\ pc = "final_eval"
    /\ bi = Len(test_loader.batches)
    /\ pc' = "make_artifact"
    /\ UNCHANGED <<trainer_vars, env_vars, memo, arg_vars, autoencoder,
                   baseline_loss, train_losses, test_loss, optimizer, epoch,
                   epoch_loss, bi, batch_loss, grad, out_vars, nsteps, phases,
                   built_state, step_state>>

\* lines 192-199
MakeArtifact ==
    /\ pc = "make_artifact"
    /\ artifact' = [made |-> TRUE, model |-> autoencoder,
                    train_losses |-> train_losses,
                    baseline_loss |-> baseline_loss, test_loss |-> test_loss]
    /\ results' = Append(results,
                     [cfg |-> [train_loader |-> train_loader,
                               test_loader |-> test_loader,
                               lr |-> lr, epochs |-> epochs],
                      model |-> autoencoder,
                      model_state |-> Weights,
                      built_state |-> built_state,
                      train_losses |-> train_losses,
                      baseline_loss |-> baseline_loss,
                      test_loss |-> test_loss])
    /\ phases' = Append(phases, <<"DONE", 0>>)
    /\ pc' = "done"
    /\ FrameDropped
    /\ UNCHANGED <<trainer_vars, env_vars, memo, arg_vars, error, file, dumped,
                   nsteps, built_state, step_state>>

\* the statements that call into the numeric runtime or an iterator, each of
\* which may raise
RaisingPcs ==
    {"build", "baseline_eval", "next_batch", "zero_grad", "forward", "backward",
     "step", "accumulate", "final_eval"}

\* the loop body wrapped in a try that records the exception and goes on with
\* the next batch
RaiseCaught ==
    /\ pc \in RaisingPcs
    /\ \E e \in ErrorKinds : error' = e
    /\ pc' = IF pc \in {"zero_grad", "forward", "backward", "step", "accumulate"}
             THEN "next_batch" ELSE "raised"
    /\ UNCHANGED <<trainer_vars, env_vars, memo, arg_vars, autoencoder,
                   baseline_loss, train_losses, test_loss, optimizer, epoch,
                   epoch_loss, bi, batch_loss, grad, artifact, file, dumped,
                   results, nsteps, phases, built_state, step_state>>

\* lines 139-199 hold no try: an exception raised by a statement leaves fit
Raise ==
    /\ pc \in RaisingPcs
    /\ \E e \in ErrorKinds : error' = e
    /\ pc' = "raised"
    /\ FrameDropped
    /\ UNCHANGED <<trainer_vars, env_vars, memo, arg_vars, artifact, file,
                   dumped, results, nsteps, phases, built_state, step_state>>

\* ---------------------------------------------------------- TrainArtifact
Metrics(a) ==
    [baseline_loss |-> a.baseline_loss, train_losses |-> a.train_losses,
     test_loss |-> a.test_loss]

\* lines 31-41: open(path, "w") truncates whatever is there
DumpMetrics ==
    /\ pc = "done"
    /\ artifact.made
    /\ ~dumped
    /\ file' = [exists |-> TRUE, text |-> JsonDump(Metrics(artifact))]
    /\ dumped' = TRUE
    /\ UNCHANGED <<trainer_vars, env_vars, memo, arg_vars, pc, autoencoder,
                   baseline_loss, train_losses, test_loss, optimizer, epoch,
                   epoch_loss, bi, batch_loss, grad, artifact, error, results,
                   nsteps, phases, built_state, step_state>>

\* something else wrote a file at the path before dump_metrics is called
OtherWriter ==
    /\ pc = "done"
    /\ ~dumped
    /\ ~file.exists
    /\ file' = OldFile
    /\ UNCHANGED <<trainer_vars, env_vars, memo, arg_vars, pc, autoencoder,
                   baseline_loss, train_losses, test_loss, optimizer, epoch,
                   epoch_loss, bi, batch_loss, grad, artifact, error, dumped,
                   results, nsteps, phases, built_state, step_state>>

FitStep ==
    \/ BuildModel \/ BaselineInit \/ BaselineBatch \/ BaselineEnd
    \/ MakeOptimizer \/ EpochHead \/ NextBatch \/ ZeroGrad \/ Forward
    \/ Backward \/ OptimizerStep \/ Accumulate \/ EpochEnd
    \/ FinalInit \/ FinalBatch \/ FinalEnd \/ MakeArtifact \/ Raise

\* fit is not running and the caller may call it
CanCall == pc \in {"idle", "done", "raised"} /\ calls_left > 0

Fit == CanCall /\ \E cfg \in Configs : Call(cfg)

FitAgain == CanCall /\ \E cfg \in ReuseConfigs : Call(cfg)

Next == Fit \/ FitStep \/ OtherWriter \/ DumpMetrics

NextReuse == FitAgain \/ FitStep \/ OtherWriter \/ DumpMetrics

Spec == Init /\ [][Next]_vars

SpecReuse == InitReuse /\ [][NextReuse]_vars

\* =================================================================== claims
InEpochPcs ==
    {"next_batch", "zero_grad", "forward", "backward", "step", "accumulate",
     "epoch_end"}

Max0(n) == IF n > 0 THEN n ELSE 0

\* epochs whose loss has been recorded: the loop variable counts the epoch in
\* progress until its loss is appended
EpochsCompleted == IF pc \in InEpochPcs THEN epoch - 1 ELSE epoch

\* C1: at every point of a run train_losses holds one entry per completed
\* epoch, and the artifact of a run of N >= 1 epochs holds exactly N entries.
C1_TrainLossesLength ==
    /\ pc \notin {"idle", "raised", "done"} => Len(train_losses) = EpochsCompleted
    /\ Len(train_losses) <= Max0(epochs)
    /\ (artifact.made /\ epochs >= 1) => Len(artifact.train_losses) = epochs

C1_Witness ==
    /\ artifact.made
    /\ epochs = MaxEpochs
    /\ Len(train_loader) = MaxBatches
    /\ Len(artifact.train_losses) = MaxEpochs

Present(a) == a.k # "none"

IsNonNegFinite(a) == a.k = "fin" /\ a.v >= 0

NonNegOrNonFinite(a) == IsNonNegFinite(a) \/ a = Inf \/ a = NaN

ExpectedPhases ==
    <<<<"MODEL_BUILT", 0>>>>
    \o (IF test_loader.present THEN <<<<"BASELINE_EVAL", 0>>>> ELSE <<>>)
    \o [e \in 1..Max0(epochs) |-> <<"TRAINING", e>>]
    \o (IF test_loader.present THEN <<<<"FINAL_EVAL", 0>>>> ELSE <<>>)
    \o <<<<"DONE", 0>>>>

IsPrefix(s, t) == Len(s) <= Len(t) /\ s = SubSeq(t, 1, Len(s))

LastPhase == IF phases = <<>> THEN <<"NONE", 0>> ELSE phases[Len(phases)]

\* C3: a run goes MODEL_BUILT, BASELINE_EVAL (iff a test loader was given),
\* TRAINING 1..N in order, FINAL_EVAL (iff a test loader was given), DONE; the
\* baseline pass is over before the first optimizer step, the final pass
\* starts after all N epochs, and the artifact exists only at DONE.
C3_PhaseOrder ==
    /\ IsPrefix(phases, ExpectedPhases)
    /\ pc = "baseline_eval" => LastPhase = <<"BASELINE_EVAL", 0>> /\ nsteps = 0
    /\ (nsteps > 0 /\ test_loader.present) =>
          phases[2] = <<"BASELINE_EVAL", 0>> /\ pc # "baseline_eval"
    /\ pc \in InEpochPcs => LastPhase = <<"TRAINING", epoch>>
    /\ pc = "final_eval" =>
          /\ LastPhase = <<"FINAL_EVAL", 0>>
          /\ Len(train_losses) = Max0(epochs)
          /\ nsteps = Max0(epochs) * Len(train_loader)
    /\ pc = "done" <=> LastPhase = <<"DONE", 0>>
    /\ pc = "done" => phases = ExpectedPhases
    /\ artifact.made <=> pc = "done"

C3_Witness ==
    /\ pc = "done"
    /\ test_loader.present /\ test_loader.batches # <<>>
    /\ epochs = MaxEpochs /\ Len(train_loader) = MaxBatches
    /\ Len(phases) = MaxEpochs + 4

BadConfig == epochs <= 0 \/ lr <= 0

\* C4 as stated: a call with a non-positive epoch count or learning rate ends
\* in an error before the model is built and before any pass over an iterator,
\* and returns no artifact.
C4_FailFast ==
    (pc # "idle" /\ BadConfig) =>
        /\ autoencoder = 0
        /\ phases = <<>>
        /\ nsteps = 0
        /\ ~artifact.made
        /\ pc \in {"build", "raised"}

fit_locals ==
    <<autoencoder, baseline_loss, train_losses, test_loss, optimizer, epoch,
      epoch_loss, bi, batch_loss, grad, nsteps, phases>>

\* C5: an exception raised by a step of fit leaves fit at once and as it was
\* raised: the run is over (no later batch or epoch, no second try of the
\* failed step, the model untouched from then on) and no artifact is returned.
C5_NoCatchNoRetry ==
    [][/\ error' # error => (error = "none" /\ pc' = "raised")
       /\ error' # "none" => (pc' = "raised" /\ ~artifact'.made)
       /\ pc = "raised" =>
             /\ pc' = "raised"
             /\ error' = error
             /\ UNCHANGED <<fit_locals, params, results, artifact>>]_vars

C5_Witness ==
    /\ pc = "raised"
    /\ error = "RuntimeError"
    /\ LastPhase = <<"TRAINING", MaxEpochs>>
    /\ nsteps > Len(train_loader)
    /\ ~artifact.made

HasNaN(metrics) ==
    \/ metrics.baseline_loss = NaN
    \/ metrics.test_loss = NaN
    \/ \E j \in 1..Len(metrics.train_losses) : metrics.train_losses[j] = NaN

\* what fit returned, as recorded when it returned
Returned == results[Len(results)]

ArtifactUntouched ==
    /\ artifact.made
    /\ Metrics(artifact) = Metrics(Returned)
    /\ artifact.model = Returned.model
    /\ params[artifact.model] = Returned.model_state

InBatchPcs == {"zero_grad", "forward", "backward", "step", "accumulate"}

\* optimizer steps a run has made when it stands at pc in batch bi of epoch
StepsSoFar ==
    (epoch - 1) * Len(train_loader)
    + (IF pc \in {"zero_grad", "forward", "backward", "step"} THEN bi - 1 ELSE bi)

\* C10: every batch of every epoch goes through zero_grad, forward and loss,
\* backward, one optimizer step, accumulation of loss / len(batch), in this
\* order and once; the epoch total starts from 0 in every epoch; every step
\* uses gradients reset since the step before; N epochs over B batches make
\* N * B steps.
C10_TrainingSteps ==
    [][/\ pc' \in InEpochPcs => nsteps' = StepsSoFar'
       /\ pc' = "done" => nsteps' = Max0(epochs') * Len(train_loader')
       /\ (pc = "next_batch" /\ pc' # "raised") =>
             IF bi < Len(train_loader)
             THEN pc' = "zero_grad" /\ bi' = bi + 1
             ELSE pc' = "epoch_end" /\ bi' = bi
       /\ (pc = "zero_grad" /\ pc' # "raised") => pc' = "forward" /\ grad' = "zero"
       /\ (pc = "forward" /\ pc' # "raised") => pc' = "backward"
       /\ (pc = "backward" /\ pc' # "raised") => pc' = "step" /\ grad' = "fresh"
       /\ (pc = "step" /\ pc' # "raised") => pc' = "accumulate"
       /\ (nsteps' # nsteps /\ pc' # "build") =>
             /\ pc = "step" /\ grad = "fresh" /\ nsteps' = nsteps + 1
             /\ params'[autoencoder] = AdamStep(Weights, lr, bi)
       /\ (pc = "accumulate" /\ pc' # "raised") =>
             /\ pc' = "next_batch"
             /\ epoch_loss' = FAdd(epoch_loss, FDiv(batch_loss, train_loader[bi]))
       /\ (pc \in InBatchPcs /\ pc' \in InBatchPcs) => bi' = bi /\ epoch' = epoch
       /\ (pc \in InEpochPcs /\ pc # "accumulate" /\ pc' # "raised") =>
             epoch_loss' = epoch_loss
       /\ (epoch' # epoch /\ pc' \notin {"done", "raised", "build"}) =>
             /\ epoch' = epoch + 1 /\ epoch_loss' = Fin(0) /\ bi' = 0
             /\ pc' = "next_batch"
       /\ (train_losses' # train_losses /\ pc' \notin {"done", "raised"}) =>
             /\ pc = "epoch_end" /\ bi = Len(train_loader)
             /\ train_losses' = Append(train_losses, epoch_loss)
       /\ (pc = "make_artifact" /\ pc' = "done") =>
             artifact'.train_losses = train_losses]_vars

C10_Witness ==
    /\ pc = "done"
    /\ epochs = MaxEpochs /\ Len(train_loader) = MaxBatches
    /\ nsteps = MaxEpochs * MaxBatches
    /\ artifact.train_losses[1].k = "fin" /\ artifact.train_losses[1].v > 0
    /\ artifact.train_losses[MaxEpochs] = Fin(0)

\* C6 as stated: every fit call starts from a model that does not depend on
\* earlier calls on the same Trainer, and a later call leaves the model of an
\* artifact returned earlier as it was.
C6_ModelPerFit ==
    /\ autoencoder # 0 => built_state = <<>>
    /\ \A i \in 1..Len(results) :
          /\ results[i].built_state = <<>>
          /\ params[results[i].model] = results[i].model_state

\* C7 as stated: under a fixed seed two fit calls with the same configuration
\* return the same train_losses, baseline_loss and test_loss.
C7_Deterministic ==
    \A i, j \in 1..Len(results) :
        results[i].cfg = results[j].cfg =>
            /\ results[i].train_losses = results[j].train_losses
            /\ results[i].baseline_loss = results[j].baseline_loss
            /\ results[i].test_loss = results[j].test_loss

====
